---- MODULE Spec2Model ----
(***************************************************************************)
(* Model of the png package: the chunk framing codec (png/chunks.py), the  *)
(* container load/dump (png/__init__.py) and the scanline filter codec     *)
(* (png/filter.py).  Byte strings are sequences of integers 0..255.  A     *)
(* 32-bit checksum is kept as a pair <<high 16 bits, low 16 bits>>.        *)
(***************************************************************************)
EXTENDS Integers, Sequences, FiniteSets, TLC

(* ------------------------------ bounds -------------------------------- *)
MaxChunks == 2
MaxRows == 2
MaxWidth == 2
MaxRaw == 3

(* --------------------------- byte helpers ----------------------------- *)
NoError == "none"

Min(a, b) == IF a < b THEN a ELSE b

\* Python slice s[lo:hi] with 0-based, non-negative lo and hi
Slice(s, lo, hi) == SubSeq(s, lo + 1, Min(hi, Len(s)))

RECURSIVE Xor(_, _)
Xor(a, b) ==
  IF a = 0 THEN b
  ELSE IF b = 0 THEN a
  ELSE (((a % 2) + (b % 2)) % 2) + 2 * Xor(a \div 2, b \div 2)

\* struct.pack("!I", n) of an integer
PackU32(n) ==
  << n \div 16777216, (n \div 65536) % 256, (n \div 256) % 256, n % 256 >>

\* struct.unpack("!I", b) to an integer
UnpackU32(b) == ((b[1] * 256 + b[2]) * 256 + b[3]) * 256 + b[4]

\* PackCrc with the bytes in little-endian order ("<I" for "!I")
PackCrcLE(c) == << c[2] % 256, c[2] \div 256, c[1] % 256, c[1] \div 256 >>

\* struct.pack("!I", crc) of a checksum pair
PackCrc(c) == << c[1] \div 256, c[1] % 256, c[2] \div 256, c[2] % 256 >>

\* struct.unpack("!I", b) to a checksum pair
UnpackCrc(b) == << b[1] * 256 + b[2], b[3] * 256 + b[4] >>

(* ------------------------------ CRC-32 -------------------------------- *)
CrcPoly == << 60856, 33568 >>

CrcShift1(c) ==
  LET s == << c[1] \div 2, ((c[1] % 2) * 32768) + (c[2] \div 2) >>
  IN IF c[2] % 2 = 1 THEN << Xor(s[1], CrcPoly[1]), Xor(s[2], CrcPoly[2]) >> ELSE s

RECURSIVE CrcRounds(_, _)
CrcRounds(c, k) == IF k = 0 THEN c ELSE CrcRounds(CrcShift1(c), k - 1)

CrcTable == [n \in 0..255 |-> CrcRounds(<< 0, n >>, 8)]

CrcUpdate(c, byte) ==
  LET t == CrcTable[Xor(c[2] % 256, byte)]
      s == << c[1] \div 256, ((c[1] % 256) * 256) + (c[2] \div 256) >>
  IN << Xor(s[1], t[1]), Xor(s[2], t[2]) >>

RECURSIVE CrcFold(_, _, _)
CrcFold(c, bytes, i) ==
  IF i > Len(bytes) THEN c ELSE CrcFold(CrcUpdate(c, bytes[i]), bytes, i + 1)

\* zlib.crc32(bytes)
crc32(bytes) ==
  LET c == CrcFold(<< 65535, 65535 >>, bytes, 1)
  IN << Xor(c[1], 65535), Xor(c[2], 65535) >>

(* --------------------------- chunks.Chunk ----------------------------- *)
PNG_HEADER == << 137, 80, 78, 71, 13, 10, 26, 10 >>

\* string.ascii_letters as code points
ascii_letters == (65..90) \cup (97..122)

TagIHDR == << 73, 72, 68, 82 >>
TagIDAT == << 73, 68, 65, 84 >>
TagIEND == << 73, 69, 78, 68 >>
TagNone == << 110, 111, 78, 101 >>

\* chunk_map.get(chunk_name, chunks.Chunk)
chunk_map(name) ==
  IF name = TagIHDR THEN "IHDR"
  ELSE IF name = TagIDAT THEN "IDAT"
  ELSE IF name = TagIEND THEN "IEND"
  ELSE "Chunk"

\* cls(): the constructors' defaults
NewChunk(cls) ==
  [ cls |-> cls,
    name |-> (IF cls = "IHDR" THEN TagIHDR
              ELSE IF cls = "IDAT" THEN TagIDAT
              ELSE IF cls = "IEND" THEN TagIEND ELSE TagNone),
    length |-> 0,
    data |-> << >>,
    crc |-> << 0, 0 >>,
    ignore_errors |-> FALSE,
    fields |-> (IF cls = "IHDR" THEN << 0, 0, 8, 2, 0, 0, 0 >> ELSE << >>) ]

\* Chunk.get_crc
get_crc(c) == crc32(c.name \o c.data)

\* Chunk.verify_length: "raise", "false" or "true"
verify_length(c) ==
  IF Len(c.data) # c.length
  THEN (IF ~c.ignore_errors THEN "raise" ELSE "false")
  ELSE "true"

\* Chunk.verify_name: the loop returns after looking at the first character
verify_name(c) ==
  IF Len(c.name) = 0 THEN "none"
  ELSE IF c.name[1] \notin ascii_letters
       THEN (IF ~c.ignore_errors THEN "raise" ELSE "false")
       ELSE "true"

\* Chunk.verify_crc
verify_crc(c) ==
  IF c.crc # get_crc(c)
  THEN (IF ~c.ignore_errors THEN "raise" ELSE "false")
  ELSE "true"

\* raw_name.decode("ascii") fails on a byte above 127
AsciiDecodable(raw) == \A i \in 1..Len(raw) : raw[i] < 128

Fail(e, c) == [err |-> e, chunk |-> c]

\* Chunk.load for class cls on the chunk's bytes d
ChunkBaseLoad(cls, d) ==
  LET inst == NewChunk(cls) IN
  IF Len(d) < 12 THEN Fail("ValueError: Chunk-data too small", inst)
  ELSE
    LET c1 == [inst EXCEPT !.length = UnpackU32(Slice(d, 0, 4)),
                           !.data = Slice(d, 8, Len(d) - 4)]
        raw_name == Slice(d, 4, 8)
    IN
    IF verify_length(c1) = "raise" THEN Fail("ValueError: Data length does not match", c1)
    ELSE IF ~AsciiDecodable(raw_name) THEN Fail("UnicodeDecodeError", c1)
    ELSE
      LET c2 == [c1 EXCEPT !.name = raw_name]
          crcbytes == Slice(d, 8 + c2.length, 8 + c2.length + 4)
      IN
      IF verify_name(c2) = "raise" THEN Fail("ValueError: Invalid character in chunk name", c2)
      ELSE IF Len(crcbytes) # 4 THEN Fail("struct.error", c2)
      ELSE
        LET c3 == [c2 EXCEPT !.crc = UnpackCrc(crcbytes)] IN
        IF verify_crc(c3) = "raise" THEN Fail("ValueError: CRC mismatch", c3)
        ELSE Fail(NoError, c3)

\* struct.unpack("!IIBBBBB", data)
UnpackIHDR(p) ==
  << UnpackU32(Slice(p, 0, 4)), UnpackU32(Slice(p, 4, 8)), p[9], p[10], p[11], p[12], p[13] >>

\* PackIHDR with width and height in the wrong order
PackIHDRSwapped(f) == PackU32(f[2]) \o PackU32(f[1]) \o << f[3], f[4], f[5], f[6], f[7] >>

\* struct.pack("!IIBBBBB", ...)
PackIHDR(f) == PackU32(f[1]) \o PackU32(f[2]) \o << f[3], f[4], f[5], f[6], f[7] >>

\* IHDR.load: Chunk.load, then the 13-byte payload is unpacked into the fields
IHDRLoad(d) ==
  LET r == ChunkBaseLoad("IHDR", d) IN
  IF r.err # NoError THEN r
  ELSE IF Len(r.chunk.data) # 13 THEN Fail("struct.error", r.chunk)
  ELSE Fail(NoError, [r.chunk EXCEPT !.fields = UnpackIHDR(r.chunk.data)])

\* cls.load(data) for the class chunk_map selected
ChunkLoad(cls, d) == IF cls = "IHDR" THEN IHDRLoad(d) ELSE ChunkBaseLoad(cls, d)

DumpFail(e, c) == [err |-> e, bytes |-> << >>, chunk |-> c]

\* Chunk.dump(auto_crc, auto_length)
ChunkBaseDump(c, auto_crc, auto_length) ==
  LET c1 == IF auto_length THEN [c EXCEPT !.length = Len(c.data)] ELSE c
      c2 == IF auto_crc THEN [c1 EXCEPT !.crc = get_crc(c1)] ELSE c1
  IN
  IF verify_name(c2) = "raise" THEN DumpFail("ValueError: Invalid character in chunk name", c2)
  ELSE [err |-> NoError,
        bytes |-> PackU32(c2.length) \o c2.name \o c2.data \o PackCrc(c2.crc),
        chunk |-> c2]

\* IHDR.dump: the payload is rebuilt from the fields
IHDRDump(c) == ChunkBaseDump([c EXCEPT !.data = PackIHDR(c.fields)], TRUE, TRUE)

\* IEND.dump: a payload or a non-zero length field is refused
IENDDump(c) ==
  IF Len(c.data) # 0 /\ ~c.ignore_errors THEN DumpFail("ValueError: IEND has data", c)
  ELSE IF c.length # 0 /\ ~c.ignore_errors
       THEN DumpFail("ValueError: IEND data length is not 0", c)
       ELSE ChunkBaseDump(c, TRUE, TRUE)

\* chunk.dump() of the chunk's own class, with default options
ChunkDump(c) ==
  IF c.cls = "IHDR" THEN IHDRDump(c)
  ELSE IF c.cls = "IEND" THEN IENDDump(c)
  ELSE ChunkBaseDump(c, TRUE, TRUE)

(* ----------------------------- png.PNG ------------------------------- *)
\* HeaderMismatch comparing only the first four bytes of the signature
HeaderMismatchShort(d) == Slice(d, 0, 4) # SubSeq(PNG_HEADER, 1, 4)

\* data[0:8] != PNG_HEADER
HeaderMismatch(d) == Slice(d, 0, 8) # PNG_HEADER

RECURSIVE DumpAll(_, _, _)
\* PNG.dump: the loop over self.chunks from index i on, acc the bytes so far
DumpAll(cs, i, acc) ==
  IF i > Len(cs) THEN [err |-> NoError, bytes |-> acc, chunks |-> cs]
  ELSE LET r == ChunkDump(cs[i]) IN
       IF r.err # NoError THEN [err |-> r.err, bytes |-> acc, chunks |-> cs]
       ELSE DumpAll([cs EXCEPT ![i] = r.chunk], i + 1, acc \o r.bytes)

(* ---------------------------- png.filter ------------------------------ *)
\* math.ceil(n / 8)
Ceil8(n) == (n + 7) \div 8

Abs(x) == IF x < 0 THEN -x ELSE x

paeth(a, b, c) ==
  LET p == a + b - c
      pa == Abs(p - a)
      pb == Abs(p - b)
      pc_ == Abs(p - c)
  IN IF pa <= pb /\ pa <= pc_ THEN a
     ELSE IF pb <= pc_ THEN b
     ELSE c

ByteRange(v) == IF v > 255 THEN "ValueError: bytes must be in range(0, 256)" ELSE NoError

\* the error raised while computing output byte i (1-based) of a row, if any
ElemErr(ft, ld, prev, B, i) ==
  IF ft = 1 THEN (IF i - 1 < B THEN NoError ELSE "TypeError")
  ELSE IF ft = 2 THEN (IF i > Len(prev) THEN "IndexError" ELSE ByteRange(ld[i] + prev[i]))
  ELSE IF ft = 3 THEN
    (IF i - 1 < B
     THEN (IF i > Len(prev) THEN "IndexError" ELSE ByteRange(ld[i] + prev[i]))
     ELSE "TypeError")
  ELSE IF ft = 4 THEN (IF i > Len(prev) THEN "IndexError" ELSE NoError)
  ELSE NoError

\* the byte written for output index i (1-based) of a row
ElemVal(ft, ld, prev, B, i) ==
  IF ft = 2 THEN ld[i] + prev[i]
  ELSE IF ft = 3 THEN ld[i] + prev[i]
  ELSE IF ft = 4 THEN
    (IF i - 1 < B
     THEN (ld[i] + paeth(0, prev[i], 0)) % 256
     ELSE (ld[i] + paeth(ld[i - B], prev[i], prev[i - B])) % 256)
  ELSE ld[i]

\* one iteration of decode's while loop on the row starting at ls
DecodeLine(d, ls, sb, B, prev) ==
  IF sb = 0 THEN [err |-> "ZeroDivisionError", line |-> << >>]
  ELSE
    LET ft == d[ls + 1]
        ld == Slice(d, ls + 1, ls + 1 + sb)
        bad == {i \in 1..Len(ld) : ElemErr(ft, ld, prev, B, i) # NoError}
    IN
    IF ft \notin 0..4 THEN [err |-> NoError, line |-> << >>]
    ELSE IF bad # {}
    THEN [err |-> ElemErr(ft, ld, prev, B, CHOOSE i \in bad : \A j \in bad : i <= j),
          line |-> << >>]
    ELSE [err |-> NoError, line |-> [i \in 1..Len(ld) |-> ElemVal(ft, ld, prev, B, i)]]

\* EncodeLine writing the Sub filter type (1) in front of the unfiltered row
EncodeLineSub(d, sb, n) == << 1 >> \o Slice(d, n * sb, n * sb + sb)

\* the row appended by one iteration of encode's while loop
EncodeLine(d, sb, n) == << 0 >> \o Slice(d, n * sb, n * sb + sb)

(* ------------------------------ inputs -------------------------------- *)
RECURSIVE SeqsUpTo(_, _)
\* all sequences over S of length at most n
SeqsUpTo(S, n) ==
  IF n = 0 THEN {<< >>}
  ELSE LET T == SeqsUpTo(S, n - 1)
       IN T \cup {Append(t, x) : t \in {u \in T : Len(u) = n - 1}, x \in S}

\* all sequences over S of length exactly n
SeqsOfLen(S, n) == {t \in SeqsUpTo(S, n) : Len(t) = n}

RECURSIVE Flatten(_)
Flatten(ss) == IF ss = << >> THEN << >> ELSE Head(ss) \o Flatten(Tail(ss))

ByteSamples == {0, 1, 255}
RowSamples == {1, 255}
BitsPerPixel == {4, 8}
MaxLines == MaxRaw + 2

TagTEXT == << 116, 69, 88, 116 >>
TagBad0 == << 49, 68, 65, 84 >>
TagBad2 == << 73, 68, 49, 84 >>
HeaderPayload == << 0, 0, 0, 2, 0, 0, 0, 1, 8, 2, 0, 0, 0 >>
BadHeader == << 137, 80, 78, 71, 13, 10, 26, 13 >>

\* a chunk as it lies in a stream: declared length, tag, payload, stored CRC
Rec(tag, payload, declared, crc_ok) ==
  LET c == crc32(tag \o payload) IN
  [ tag |-> tag, payload |-> payload, declared |-> declared,
    crc |-> IF crc_ok THEN c ELSE << c[1], (c[2] + 1) % 65536 >> ]

RecBytes(r) == PackU32(r.declared) \o r.tag \o r.payload \o PackCrc(r.crc)

StreamRecords ==
  { Rec(TagIHDR, HeaderPayload, 13, TRUE),
    Rec(TagIHDR, << 1 >>, 1, TRUE),
    Rec(TagIDAT, << 7 >>, 1, TRUE),
    Rec(TagIDAT, << 7 >>, 1, FALSE),
    Rec(TagIDAT, << 7 >>, 2, TRUE),
    Rec(TagIEND, << >>, 0, TRUE),
    Rec(TagIEND, << 1 >>, 1, TRUE),
    Rec(TagTEXT, << 65 >>, 1, TRUE),
    Rec(TagBad0, << >>, 0, TRUE),
    Rec(TagBad2, << >>, 0, TRUE) }

ChunkNames == { TagIDAT, TagTEXT, TagNone, TagBad0, TagBad2 }
ChunkPayloads == { << >>, << 7 >>, << 0, 255 >> }
StaleLengths == { 0, 5 }
StaleCrcs == { << 0, 0 >>, << 1, 2 >> }

(* ------------------------------- state -------------------------------- *)
VARIABLES
  op,              \* the entry point being run
  pc,              \* position in it
  err,             \* the exception raised, NoError if none
  data,            \* PNG.load: the input bytes
  ignore_errors,   \* PNG.load: lenient mode
  in_chunks,       \* the chunk records the input was built from
  trailing,        \* the bytes after the last record of the input
  chunk_start,     \* PNG.load: the loop cursor
  chunks,          \* PNG.chunks
  dumped,          \* the bytes returned by PNG.dump
  chunk_in,        \* the Chunk as constructed
  chunk,           \* the Chunk object
  chunk_bytes,     \* the bytes returned by Chunk.dump
  loaded,          \* the result of Chunk.load(chunk_bytes)
  acc,             \* the last tag-bit accessor call and its outcome
  fdata,           \* filter.decode: data
  width,
  bpp,             \* bits per pixel
  line_start,      \* filter.decode: the loop cursor
  prev_line_data,
  outbuf,
  raw,             \* filter.encode: data
  scanline_bytes,
  out,
  lines

vars == << op, pc, err, data, ignore_errors, in_chunks, trailing, chunk_start, chunks,
           dumped, chunk_in, chunk, chunk_bytes, loaded, acc, fdata, width, bpp,
           line_start, prev_line_data, outbuf, raw, scanline_bytes, out, lines >>

pngVars == << data, ignore_errors, in_chunks, trailing, chunk_start, chunks, dumped >>
chunkVars == << chunk_in, chunk, chunk_bytes, loaded, acc >>
filterVars == << fdata, width, bpp, line_start, prev_line_data, outbuf, raw,
                 scanline_bytes, out, lines >>

NoAcc == [name |-> "none", set |-> "None", err |-> NoError, result |-> FALSE]

PngIdle ==
  /\ data = << >> /\ ignore_errors = FALSE /\ in_chunks = << >> /\ trailing = << >>
  /\ chunk_start = 0 /\ chunks = << >> /\ dumped = << >>

ChunkIdle ==
  /\ chunk_in = NewChunk("Chunk") /\ chunk = NewChunk("Chunk")
  /\ chunk_bytes = << >> /\ loaded = Fail(NoError, NewChunk("Chunk")) /\ acc = NoAcc

FilterIdle ==
  /\ fdata = << >> /\ width = 0 /\ bpp = 8 /\ line_start = 0 /\ prev_line_data = << >>
  /\ outbuf = << >> /\ raw = << >> /\ scanline_bytes = 0 /\ out = << >> /\ lines = 0

\* PNG.load(data, ignore_errors) is called
InitLoad ==
  /\ op = "load" /\ pc = "load_start" /\ err = NoError
  /\ ignore_errors \in BOOLEAN
  /\ in_chunks \in SeqsUpTo(StreamRecords, MaxChunks)
  /\ trailing \in {<< >>, << 0 >>}
  /\ \E prefix \in {PNG_HEADER, BadHeader, << >>} :
       /\ Len(prefix) # 8 => in_chunks = << >> /\ trailing = << >>
       /\ data = prefix \o Flatten([i \in 1..Len(in_chunks) |-> RecBytes(in_chunks[i])])
                   \o trailing
  /\ chunk_start = 0 /\ chunks = << >> /\ dumped = << >>
  /\ ChunkIdle /\ FilterIdle

\* a Chunk(name, data) is constructed and its length and crc fields are set
InitChunk ==
  /\ op = "chunk" /\ pc = "chunk_new" /\ err = NoError
  /\ \E n \in ChunkNames, p \in ChunkPayloads, l \in StaleLengths, c \in StaleCrcs :
       chunk_in = [NewChunk("Chunk") EXCEPT !.name = n, !.data = p, !.length = l, !.crc = c]
  /\ chunk = chunk_in
  /\ chunk_bytes = << >> /\ loaded = Fail(NoError, NewChunk("Chunk")) /\ acc = NoAcc
  /\ PngIdle /\ FilterIdle

\* filter.decode(data, width, bpp) is called on rows of 1 + scanline_bytes bytes
InitDecode ==
  /\ op = "decode" /\ pc = "decode_loop" /\ err = NoError
  /\ width \in 0..MaxWidth
  /\ bpp \in BitsPerPixel
  /\ \E rows \in SeqsUpTo({<< t >> \o s : t \in 0..5,
                           s \in SeqsOfLen(RowSamples, Ceil8(width * bpp))}, MaxRows) :
       fdata = Flatten(rows)
  /\ line_start = 0
  /\ prev_line_data = [i \in 1..Ceil8(width * bpp) |-> 0]
  /\ outbuf = << >>
  /\ raw = << >> /\ scanline_bytes = 0 /\ out = << >> /\ lines = 0
  /\ PngIdle /\ ChunkIdle

\* filter.encode(data, scanline_bytes) is called for a width and bits per pixel
InitEncode ==
  /\ op = "encode" /\ pc = "encode_loop" /\ err = NoError
  /\ width \in 0..MaxWidth
  /\ bpp \in BitsPerPixel
  /\ raw \in SeqsUpTo(ByteSamples, MaxRaw)
  /\ scanline_bytes = Ceil8(width * bpp)
  /\ out = << >> /\ lines = 0
  /\ fdata = << >> /\ line_start = 0 /\ prev_line_data = << >> /\ outbuf = << >>
  /\ PngIdle /\ ChunkIdle

Init == InitLoad \/ InitChunk \/ InitDecode \/ InitEncode

(* ----------------------------- PNG.load ------------------------------ *)
\* the signature check at the top of PNG.load
LoadHeader ==
  /\ pc = "load_start"
  /\ IF HeaderMismatch(data) /\ ~ignore_errors
     THEN /\ pc' = "load_error"
          /\ err' = "ValueError: No Valid PNG header"
          /\ UNCHANGED chunk_start
     ELSE /\ pc' = "load_loop"
          /\ chunk_start' = 8
          /\ UNCHANGED err
  /\ UNCHANGED << op, data, ignore_errors, in_chunks, trailing, chunks, dumped >>
  /\ UNCHANGED << chunkVars, filterVars >>

\* one iteration of the while loop of PNG.load
LoadChunk ==
  /\ pc = "load_loop"
  /\ chunk_start < Len(data)
  /\ LET head == Slice(data, chunk_start, chunk_start + 8) IN
     IF Len(head) # 8
     THEN /\ pc' = "load_error"
          /\ err' = "struct.error"
          /\ UNCHANGED << chunk_start, chunks >>
     ELSE LET chunk_length == UnpackU32(Slice(head, 0, 4))
              chunk_name == Slice(head, 4, 8)
              chunk_end == chunk_start + chunk_length + 12
              r == ChunkLoad(chunk_map(chunk_name), Slice(data, chunk_start, chunk_end))
          IN IF r.err # NoError
             THEN /\ pc' = "load_error"
                  /\ err' = r.err
                  /\ UNCHANGED << chunk_start, chunks >>
             ELSE /\ chunks' = Append(chunks, r.chunk)
                  /\ chunk_start' = chunk_end
                  /\ UNCHANGED << pc, err >>
  /\ UNCHANGED << op, data, ignore_errors, in_chunks, trailing, dumped >>
  /\ UNCHANGED << chunkVars, filterVars >>

\* the loop of PNG.load ends and the instance is returned
LoadReturn ==
  /\ pc = "load_loop"
  /\ ~(chunk_start < Len(data))
  /\ pc' = "load_done"
  /\ UNCHANGED << op, err, pngVars, chunkVars, filterVars >>

\* PNG.dump on the loaded instance
Dump ==
  /\ pc = "load_done"
  /\ LET r == DumpAll(chunks, 1, PNG_HEADER) IN
     /\ chunks' = r.chunks
     /\ IF r.err # NoError
        THEN pc' = "dump_error" /\ err' = r.err /\ UNCHANGED dumped
        ELSE pc' = "dump_done" /\ dumped' = r.bytes /\ UNCHANGED err
  /\ UNCHANGED << op, data, ignore_errors, in_chunks, trailing, chunk_start >>
  /\ UNCHANGED << chunkVars, filterVars >>

(* ------------------------------- Chunk -------------------------------- *)
\* chunk.dump() with default options
DumpChunk ==
  /\ pc = "chunk_new"
  /\ LET r == ChunkDump(chunk) IN
     /\ chunk' = r.chunk
     /\ IF r.err # NoError
        THEN pc' = "chunk_dump_error" /\ err' = r.err /\ UNCHANGED chunk_bytes
        ELSE pc' = "chunk_dumped" /\ chunk_bytes' = r.bytes /\ UNCHANGED err
  /\ UNCHANGED << op, chunk_in, loaded, acc, pngVars, filterVars >>

\* Chunk.load on the bytes chunk.dump() returned
LoadDumped ==
  /\ pc = "chunk_dumped"
  /\ loaded' = ChunkLoad("Chunk", chunk_bytes)
  /\ pc' = "chunk_loaded"
  /\ err' = loaded'.err
  /\ UNCHANGED << op, chunk_in, chunk, chunk_bytes, acc, pngVars, filterVars >>

\* self.name[i] = v: name is a str (the constructors pass one and Chunk.load
\* decodes one), which does not support item assignment
SetItem(name, i, v) == [err |-> "TypeError", name |-> name]

IsLower(ch) == ch \in 97..122
IsUpper(ch) == ch \in 65..90
Lower(ch) == IF IsUpper(ch) THEN ch + 32 ELSE ch
Upper(ch) == IF IsLower(ch) THEN ch - 32 ELSE ch

\* the body shared by ancillary, private, reserved and safe_to_copy: position i
\* (1-based), the case a True sets, and the set argument
Accessor(c, i, true_is_lower, set) ==
  LET ch == c.name[i]
      r == IF set = "None" THEN [err |-> NoError, name |-> c.name]
           ELSE IF (set = "True") = true_is_lower THEN SetItem(c.name, i, Lower(ch))
           ELSE SetItem(c.name, i, Upper(ch))
  IN [err |-> r.err,
      chunk |-> [c EXCEPT !.name = r.name],
      result |-> IF r.err # NoError THEN FALSE
                 ELSE IF true_is_lower THEN IsLower(r.name[i]) ELSE IsUpper(r.name[i])]

\* a call of an accessor with each value of its set argument
Access(name, i, true_is_lower) ==
  /\ \E set \in {"True", "False", "None"} :
       LET r == Accessor(chunk, i, true_is_lower, set) IN
       /\ chunk' = r.chunk
       /\ acc' = [name |-> name, set |-> set, err |-> r.err, result |-> r.result]
       /\ err' = r.err
  /\ pc' = "chunk_accessed"
  /\ UNCHANGED << op, chunk_in, chunk_bytes, loaded, pngVars, filterVars >>

ancillary ==
  /\ pc = "chunk_new"
  /\ Access("ancillary", 1, TRUE)

private ==
  /\ pc = "chunk_new"
  /\ Access("private", 2, TRUE)

reserved ==
  /\ pc = "chunk_new"
  /\ Access("reserved", 3, FALSE)

safe_to_copy ==
  /\ pc = "chunk_new"
  /\ Access("safe_to_copy", 4, TRUE)

(* ------------------------------- filter ------------------------------- *)
\* one iteration of the while loop of decode
DecodeStep ==
  /\ pc = "decode_loop"
  /\ line_start < Len(fdata)
  /\ LET sb == Ceil8(width * bpp)
         r == DecodeLine(fdata, line_start, sb, Ceil8(bpp), prev_line_data)
     IN IF r.err # NoError
        THEN /\ pc' = "decode_error"
             /\ err' = r.err
             /\ UNCHANGED << line_start, prev_line_data, outbuf >>
        ELSE /\ prev_line_data' = r.line
             /\ outbuf' = outbuf \o r.line
             /\ line_start' = line_start + sb + 1
             /\ UNCHANGED << pc, err >>
  /\ UNCHANGED << op, fdata, width, bpp, raw, scanline_bytes, out, lines >>
  /\ UNCHANGED << pngVars, chunkVars >>

\* the loop of decode ends and outbuf is returned
DecodeReturn ==
  /\ pc = "decode_loop"
  /\ ~(line_start < Len(fdata))
  /\ pc' = "decode_done"
  /\ UNCHANGED << op, err, pngVars, chunkVars, filterVars >>

\* one iteration of the while loop of encode
EncodeStep ==
  /\ pc = "encode_loop"
  /\ Len(out) - lines < Len(raw)
  /\ lines < MaxLines
  /\ out' = out \o EncodeLine(raw, scanline_bytes, lines)
  /\ lines' = lines + 1
  /\ UNCHANGED << op, pc, err, fdata, width, bpp, line_start, prev_line_data, outbuf,
                  raw, scanline_bytes >>
  /\ UNCHANGED << pngVars, chunkVars >>

\* the loop of encode ends and out is returned
EncodeReturn ==
  /\ pc = "encode_loop"
  /\ ~(Len(out) - lines < Len(raw))
  /\ pc' = "encode_done"
  /\ UNCHANGED << op, err, pngVars, chunkVars, filterVars >>

\* filter.decode(filter.encode(raw, scanline_bytes), width, bpp) is called
DecodeEncoded ==
  /\ pc = "encode_done"
  /\ pc' = "decode_loop"
  /\ fdata' = out
  /\ line_start' = 0
  /\ prev_line_data' = [i \in 1..Ceil8(width * bpp) |-> 0]
  /\ outbuf' = << >>
  /\ UNCHANGED << op, err, width, bpp, raw, scanline_bytes, out, lines >>
  /\ UNCHANGED << pngVars, chunkVars >>

Next ==
  \/ LoadHeader
  \/ LoadChunk
  \/ LoadReturn
  \/ Dump
  \/ DumpChunk
  \/ LoadDumped
  \/ ancillary
  \/ private
  \/ reserved
  \/ safe_to_copy
  \/ DecodeStep
  \/ DecodeReturn
  \/ EncodeStep
  \/ EncodeReturn
  \/ DecodeEncoded

Spec == Init /\ [][Next]_vars

(* ------------------------------ claims -------------------------------- *)
AllLetters(tag) ==
  /\ Len(tag) = 4
  /\ \A i \in 1..4 : tag[i] \in (65..90) \cup (97..122)

SignatureError == "ValueError: No Valid PNG header"

\* a record of the input that passes every check of the format
WellFormedRec(r) ==
  /\ AllLetters(r.tag)
  /\ r.declared = Len(r.payload)
  /\ r.crc = crc32(r.tag \o r.payload)
  /\ r.tag = TagIHDR => Len(r.payload) = 13
  /\ r.tag = TagIEND => r.payload = << >>

WellFormedStream ==
  /\ Len(data) >= 8
  /\ SubSeq(data, 1, 8) = PNG_HEADER
  /\ trailing = << >>
  /\ \A i \in 1..Len(in_chunks) : WellFormedRec(in_chunks[i])

C2_ChunkRoundTrip ==
  (op = "chunk" /\ AllLetters(chunk_in.name)) =>
    /\ pc # "chunk_dump_error"
    /\ pc = "chunk_loaded" =>
         /\ loaded.err = NoError
         /\ loaded.chunk.name = chunk_in.name
         /\ loaded.chunk.data = chunk_in.data
         /\ loaded.chunk.length = Len(chunk_in.data)
         /\ loaded.chunk.crc = crc32(chunk_in.name \o chunk_in.data)

C2_Witness ==
  /\ op = "chunk" /\ pc = "chunk_loaded"
  /\ AllLetters(chunk_in.name)
  /\ chunk_in.data # << >>
  /\ chunk_in.length # Len(chunk_in.data)
  /\ chunk_in.crc # crc32(chunk_in.name \o chunk_in.data)

BadSignature == Len(data) < 8 \/ SubSeq(data, 1, 8) # PNG_HEADER

FramedRec(r) ==
  /\ r.declared = Len(r.payload)
  /\ r.tag = TagIHDR => Len(r.payload) = 13
  /\ \A i \in 1..4 : r.tag[i] < 128

FailsChunkCheck(r) == ~AllLetters(r.tag) \/ r.crc # crc32(r.tag \o r.payload)

\* C4: a lenient load of a stream with a valid signature in which a chunk
\* fails the name or CRC check does not abort, and returns every chunk of the
\* stream in order with its stored values.
C4_LenientKeepsChunks ==
  ( /\ op = "load" /\ ignore_errors /\ ~BadSignature /\ trailing = << >>
    /\ \A i \in 1..Len(in_chunks) : FramedRec(in_chunks[i])
    /\ \E i \in 1..Len(in_chunks) : FailsChunkCheck(in_chunks[i]) ) =>
    /\ pc # "load_error"
    /\ pc \in {"load_done", "dump_done", "dump_error"} =>
         /\ Len(chunks) = Len(in_chunks)
         /\ \A i \in 1..Len(chunks) :
              /\ chunks[i].name = in_chunks[i].tag
              /\ chunks[i].data = in_chunks[i].payload

\* C5: a chunk returned by a strict load has a tag of four ASCII letters: a
\* non-letter at any of the four positions is rejected with a name error.
C5_StrictTagAllLetters ==
  /\ (op = "load" /\ ~ignore_errors) => \A i \in 1..Len(chunks) : AllLetters(chunks[i].name)
  /\ (pc = "chunk_loaded" /\ loaded.err = NoError) => AllLetters(loaded.chunk.name)

TagPosition(name) ==
  IF name = "ancillary" THEN 1
  ELSE IF name = "private" THEN 2
  ELSE IF name = "reserved" THEN 3
  ELSE 4

\* C6: a tag-bit accessor called with set=True or set=False on a chunk with a
\* 4-letter tag completes and changes only the letter case at its own position.
C6_AccessorSetsOwnBit ==
  ( /\ op = "chunk" /\ pc = "chunk_accessed"
    /\ AllLetters(chunk_in.name)
    /\ acc.set \in {"True", "False"} ) =>
    /\ acc.err = NoError
    /\ \A j \in 1..4 :
         IF j = TagPosition(acc.name)
         THEN chunk.name[j] \in {chunk_in.name[j], chunk_in.name[j] + 32, chunk_in.name[j] - 32}
         ELSE chunk.name[j] = chunk_in.name[j]
    /\ chunk.data = chunk_in.data
    /\ chunk.length = chunk_in.length
    /\ chunk.crc = chunk_in.crc

\* the filter-type bytes of the rows of decode's input
RowTypes(d, sb) == { d[k * (sb + 1) + 1] : k \in 0..((Len(d) - 1) \div (sb + 1)) }

\* C7: decode never returns samples for an input in which some row has a
\* filter type outside 0..4.
C7_UnknownFilterFatal ==
  ( /\ op = "decode" /\ fdata # << >>
    /\ \E t \in RowTypes(fdata, Ceil8(width * bpp)) : t \notin 0..4 ) =>
    pc # "decode_done"

\* C8: with scanline_bytes = ceil(width * bpp / 8) >= 1, encode emits each row
\* as a 0 type byte followed by the row's bytes unchanged, and decode of the
\* encoded bytes returns the raw bytes.
C8_EncodeDecodeRoundTrip ==
  (op = "encode" /\ scanline_bytes >= 1) =>
    /\ err = NoError
    /\ pc # "encode_loop" =>
         /\ lines = (Len(raw) + scanline_bytes - 1) \div scanline_bytes
         /\ Len(out) = Len(raw) + lines
         /\ \A k \in 0..(lines - 1) : out[k * (scanline_bytes + 1) + 1] = 0
         /\ \A j \in 0..(Len(raw) - 1) : out[j + (j \div scanline_bytes) + 2] = raw[j + 1]
    /\ pc = "decode_done" => outbuf = raw

C8_Witness ==
  /\ op = "encode" /\ pc = "decode_done"
  /\ scanline_bytes >= 2
  /\ Len(raw) > scanline_bytes
  /\ Len(raw) % scanline_bytes # 0
  /\ \E j \in 1..Len(raw) : raw[j] # 0

RECURSIVE RefLine(_, _, _, _, _)
\* the reconstruction of one row, byte by byte
RefLine(ft, filt, prev, B, outp) ==
  IF Len(outp) = Len(filt) THEN outp
  ELSE LET i == Len(outp) + 1
           a == IF i - 1 >= B THEN outp[i - B] ELSE 0
           b == prev[i]
           c == IF i - 1 >= B THEN prev[i - B] ELSE 0
           f == filt[i]
           v == IF ft = 0 THEN f
                ELSE IF ft = 1 THEN (f + a) % 256
                ELSE IF ft = 2 THEN (f + b) % 256
                ELSE IF ft = 3 THEN (f + ((a + b) \div 2)) % 256
                ELSE (f + paeth(a, b, c)) % 256
       IN RefLine(ft, filt, prev, B, Append(outp, v))

RECURSIVE RefRows(_, _, _, _, _)
RefRows(d, sb, B, ls, prev) ==
  IF ls >= Len(d) THEN << >>
  ELSE LET row == RefLine(d[ls + 1], SubSeq(d, ls + 2, ls + 1 + sb), prev, B, << >>)
       IN row \o RefRows(d, sb, B, ls + sb + 1, row)

RefDecode(d, w, bits) ==
  LET sb == Ceil8(w * bits)
      B == IF Ceil8(bits) < 1 THEN 1 ELSE Ceil8(bits)
  IN RefRows(d, sb, B, 0, [i \in 1..sb |-> 0])

\* C9: for whole rows with filter types in 0..4 and width >= 1, decode
\* returns without error the reference reconstruction (None, Sub, Up, Average,
\* Paeth over the reconstructed left, up and upper-left bytes, modulo 256).
C9_DecodeIsReference ==
  ( /\ op = "decode" /\ width >= 1
    /\ \A t \in RowTypes(fdata, Ceil8(width * bpp)) : t \in 0..4 ) =>
    /\ pc # "decode_error"
    /\ pc = "decode_done" => outbuf = RefDecode(fdata, width, bpp)

\* C10: the loop cursor of load, decode and encode strictly advances on every
\* iteration, so each loop ends after at most as many iterations as the input
\* has bytes.
C10_CursorAdvances ==
  [][ /\ (pc = "load_loop" /\ pc' = "load_loop") => chunk_start' > chunk_start
      /\ (pc = "decode_loop" /\ pc' = "decode_loop") => line_start' > line_start
      /\ (pc = "encode_loop" /\ pc' = "encode_loop") =>
           Len(out') - lines' > Len(out) - lines ]_vars

====
